---- MODULE Spec2Model ----
(***************************************************************************)
(* A model of proxyutils: the Proxy record (proxyutils/__init__.py, class  *)
(* Proxy) and the ResilientProxySession (same file), whose request()       *)
(* rotates to the next proxy of a bounded cyclic sequence when the         *)
(* transport fails with an error that _is_proxy_error classifies as a      *)
(* proxy error.                                                            *)
(*                                                                         *)
(* Strings are sequences of one-character strings wherever the code        *)
(* converts or measures them (country, protocol); opaque tokens elsewhere. *)
(***************************************************************************)
EXTENDS Integers, Sequences, FiniteSets, TLC

VARIABLES
    phase,      \* "new" (no constructor call yet) | "ready" | "failed" (__init__ raised)
    ctorError,  \* the exception __init__ raised: "none" | "ValueError" | "RuntimeError"
    plist,      \* the proxies argument of __init__ (a sequence of proxy ids)
    cyclesArg,  \* the max_cycles argument of __init__
    chain,      \* self._proxies, the itertools.chain iterator
    active,     \* self.proxies, the mapping the transport reads at each call
    pc,         \* position of the request in flight: "idle" | "call1" | "call2"
    req,        \* history of the request in flight or last completed
    drawn,      \* history: the proxies next(self._proxies) has yielded, in order
    lastAdv,    \* history: the last call of _set_next_proxy
    signalled,  \* history: some _set_next_proxy of a request raised 'No more proxies'
    config,     \* self._timeout and self._retry (the adapters' max_retries)
    cfgArgs,    \* the timeout and retry arguments of __init__
    threadB,    \* a second thread's request on the same session
    peer,       \* a second session
    recIn,      \* Proxy(...) keyword arguments of the last construction
    rec,        \* the Proxy record constructed, or NoRec
    recError,   \* the exception Proxy.__post_init__ raised, or "none"
    derived,    \* the URL properties read from the Proxy record, or NoDerived
    sorting,    \* a list of Proxy records being sorted and the sorted list
    clsErr,     \* the exception handed to _is_proxy_error
    clsDone,    \* _is_proxy_error has returned
    clsResult   \* its return value

vars == <<phase, ctorError, plist, cyclesArg, chain, active, pc, req, drawn,
          lastAdv, signalled, config, cfgArgs, threadB, peer, recIn, rec, recError, derived, sorting,
          clsErr, clsDone, clsResult>>

otherVars == <<threadB, peer>>
sessionVars == <<phase, ctorError, plist, cyclesArg, chain, active, pc, req,
                 drawn, lastAdv, signalled, config, cfgArgs, otherVars>>
recordVars == <<recIn, rec, recError, derived, sorting>>
classifierVars == <<clsErr, clsDone, clsResult>>

-----------------------------------------------------------------------------
(* Bounds of the model *)

MaxProxies == 3        \* longest proxies list given to a session
MaxCycles == 2         \* largest max_cycles given to a session
MaxCountryLen == 3     \* longest country string given to Proxy(...)
MaxSortLen == 3        \* longest list of Proxy records sorted

None == "None"

\* optional numeric arguments: None, a float, a timedelta (in seconds)
Absent == [type |-> "NoneType", v |-> 0]
Float(x) == [type |-> "float", v |-> x]
Inf == [type |-> "float.inf", v |-> 0]
Seconds(x) == [type |-> "timedelta", v |-> x]
TimedeltaMax == [type |-> "timedelta.max", v |-> 0]

-----------------------------------------------------------------------------
(* Characters and case conversion (str.upper, str.lower). A character is a *)
(* one-character string; "eszett" stands for the single character U+00DF.  *)

\* str.upper() of one character: a sequence, since one character can become two
UpperChar(c) ==
    CASE c = "u" -> <<"U">>
      [] c = "s" -> <<"S">>
      [] c = "d" -> <<"D">>
      [] c = "eszett" -> <<"S", "S">>   \* U+00DF, whose upper case is 'SS'
      [] OTHER -> <<c>>

\* str.lower() of one character
LowerChar(c) ==
    CASE c = "H" -> "h"
      [] c = "T" -> "t"
      [] c = "P" -> "p"
      [] c = "S" -> "s"
      [] c = "O" -> "o"
      [] c = "C" -> "c"
      [] c = "K" -> "k"
      [] OTHER -> c

RECURSIVE Upper(_)
Upper(s) == IF s = <<>> THEN <<>> ELSE UpperChar(Head(s)) \o Upper(Tail(s))

Lower(s) == [i \in 1..Len(s) |-> LowerChar(s[i])]

-----------------------------------------------------------------------------
(* Proxy: the derived URL forms *)

\* Proxy.url: f'{self.protocol.lower()}://{self.ip}:{self.port}'
Url(p) == Lower(p.protocol) \o <<":", "/", "/", p.ip, ":", p.port>>

\* Proxy.requests_protocol
\* faulty variant: the protocol is compared as given, without lower()
RequestsProtocol_NoLower(p) ==
    LET proto == p.protocol IN
    IF proto = <<"s", "o", "c", "k", "s", "4">> THEN <<"s", "o", "c", "k", "s", "4", "a">>
    ELSE IF proto = <<"s", "o", "c", "k", "s", "5">> THEN <<"s", "o", "c", "k", "s", "5", "h">>
    ELSE proto

RequestsProtocol(p) ==
    LET proto == Lower(p.protocol) IN
    IF proto = <<"s", "o", "c", "k", "s", "4">> THEN <<"s", "o", "c", "k", "s", "4", "a">>
    ELSE IF proto = <<"s", "o", "c", "k", "s", "5">> THEN <<"s", "o", "c", "k", "s", "5", "h">>
    ELSE proto

\* Proxy.requests_url: f'{self.requests_protocol}://{self.ip}:{self.port}'
RequestsUrl(p) == RequestsProtocol(p) \o <<":", "/", "/", p.ip, ":", p.port>>

\* Proxy.requests_proxies: a dict, as the set of its (key, value) items
RequestsProxies(p) == {<<"http", RequestsUrl(p)>>, <<"https", RequestsUrl(p)>>}

\* The Proxy objects the modelled callers hold, by id
ProxyIds == {"P1", "P2", "P3"}

ProxyPool ==
    [id \in ProxyIds |->
        CASE id = "P1" -> [ip |-> "10.0.0.1", port |-> "8080", protocol |-> <<"h", "t", "t", "p">>]
          [] id = "P2" -> [ip |-> "10.0.0.2", port |-> "1080", protocol |-> <<"S", "O", "C", "K", "S", "5">>]
          [] OTHER     -> [ip |-> "10.0.0.3", port |-> "1081", protocol |-> <<"s", "o", "c", "k", "s", "4">>]]

\* requests.Session.__init__ leaves self.proxies = {}
EmptyProxies == {}

-----------------------------------------------------------------------------
(* itertools.chain.from_iterable(itertools.repeat(proxies, max_cycles))    *)
(* rep: passes repeat() has still to hand out; open: an inner list iterator *)
(* is held; pos: elements that inner iterator has already yielded.          *)

\* faulty variant: the list is not repeated (max_cycles ignored)
NewChain_OnePass(lst, cycles) == [rep |-> 1, open |-> FALSE, pos |-> 0]

NewChain(lst, cycles) == [rep |-> cycles, open |-> FALSE, pos |-> 0]

\* next(chain, None): the value (None when the chain is exhausted) and the new state
RECURSIVE ChainNext(_, _)
ChainNext(it, lst) ==
    IF ~it.open
    THEN IF it.rep = 0
         THEN [val |-> None, it |-> it]
         ELSE ChainNext([rep |-> it.rep - 1, open |-> TRUE, pos |-> 0], lst)
    ELSE IF it.pos < Len(lst)
         THEN [val |-> lst[it.pos + 1], it |-> [it EXCEPT !.pos = it.pos + 1]]
         ELSE ChainNext([it EXCEPT !.open = FALSE], lst)

-----------------------------------------------------------------------------
(* Exceptions. An exception object is a node of a graph: kind[n] is the set *)
(* of the classes of interest the node is an instance of, cause[n] and      *)
(* context[n] are its __cause__ and __context__ (a node, or None). The      *)
(* exception raised is the node ErrRoot.                                    *)

ErrNodes == {"e1", "e2", "e3"}
ErrRoot == "e1"

ConnCls == "requests.ConnectionError"
ProxyCls == "requests.ProxyError"      \* a subclass of requests.ConnectionError
SocksCls == "socks.ProxyError"

\* the combinations of classes an exception can be an instance of
ErrKinds == {{}, {ConnCls}, {ConnCls, ProxyCls}, {SocksCls}, {ConnCls, SocksCls}}

ErrGraphs ==
    [type : {"error"},
     kind : [ErrNodes -> ErrKinds],
     cause : [ErrNodes -> ErrNodes \cup {None}],
     context : [ErrNodes -> ErrNodes \cup {None}]]

IsInstance(ex, n, cls) == cls \in ex.kind[n]

\* filter(None, {cur.__cause__, cur.__context__}) in the order the set iterates
\* (causeFirst: one of the two orders a two-element set can iterate in)
\* faulty variant: only __cause__ is followed
Links_CauseOnly(ex, cur, causeFirst) ==
    IF ex.cause[cur] = None THEN <<>> ELSE <<ex.cause[cur]>>

Links(ex, cur, causeFirst) ==
    LET c == ex.cause[cur]
        x == ex.context[cur]
    IN  IF c = x
        THEN (IF c = None THEN <<>> ELSE <<c>>)
        ELSE LET both == IF causeFirst THEN <<c, x>> ELSE <<x, c>>
             IN  SelectSeq(both, LAMBDA n : n # None)

\* the while loop of _is_proxy_error
RECURSIVE Walk(_, _, _, _)
Walk(ex, stack, seen, causeFirst) ==
    IF stack = <<>>
    THEN FALSE
    ELSE LET cur == stack[Len(stack)]
             rest == SubSeq(stack, 1, Len(stack) - 1)
         IN  IF cur \in seen
             THEN Walk(ex, rest, seen, causeFirst)
             ELSE IF IsInstance(ex, cur, SocksCls)
                  THEN TRUE
                  ELSE Walk(ex, rest \o Links(ex, cur, causeFirst),
                            seen \cup {cur}, causeFirst)

\* ResilientProxySession._is_proxy_error
\* faulty variant: every ConnectionError counts as a proxy error
IsProxyError_AnyConnectionError(ex, causeFirst) == IsInstance(ex, ErrRoot, ConnCls)

IsProxyError(ex, causeFirst) ==
    IF IsInstance(ex, ErrRoot, ProxyCls)
    THEN TRUE
    ELSE IF IsInstance(ex, ErrRoot, ConnCls)
         THEN Walk(ex, <<ErrRoot>>, {}, causeFirst)
         ELSE FALSE

-----------------------------------------------------------------------------
(* What a transport call (requests.Session.request) can end with *)

NodeFn(a, b, c) == [n \in ErrNodes |-> CASE n = "e1" -> a [] n = "e2" -> b [] OTHER -> c]

NoLinks == NodeFn(None, None, None)

\* requests.exceptions.ProxyError raised for an HTTP proxy
ErrHttpProxy ==
    [type |-> "error", kind |-> NodeFn({ConnCls, ProxyCls}, {}, {}),
     cause |-> NoLinks, context |-> NoLinks]

\* ConnectionError raised while handling a MaxRetryError caused by a socks.ProxyError
ErrSocksWrapped ==
    [type |-> "error", kind |-> NodeFn({ConnCls}, {}, {SocksCls}),
     cause |-> NodeFn(None, "e3", None), context |-> NodeFn("e2", None, None)]

\* ConnectionError for a name resolution failure of the origin host
ErrDns ==
    [type |-> "error", kind |-> NodeFn({ConnCls}, {}, {}),
     cause |-> NodeFn(None, "e3", None), context |-> NodeFn("e2", None, None)]

\* the same, with a reference cycle in its chain
ErrDnsCyclic ==
    [type |-> "error", kind |-> NodeFn({ConnCls}, {}, {}),
     cause |-> NodeFn(None, "e1", None), context |-> NodeFn("e2", "e2", None)]

\* ReadTimeout (no ConnectionError) that occurred while handling a socks.ProxyError
ErrReadTimeout ==
    [type |-> "error", kind |-> NodeFn({}, {}, {SocksCls}),
     cause |-> NoLinks, context |-> NodeFn("e2", "e3", None)]

SampleErrors == {ErrHttpProxy, ErrSocksWrapped, ErrDns, ErrDnsCyclic, ErrReadTimeout}

Responses == {[type |-> "response", status |-> 200], [type |-> "response", status |-> 503]}

Outcomes == Responses \cup SampleErrors

NoOutcome == [type |-> "none"]

\* RuntimeError('No more proxies available')
NoMoreProxies == [type |-> "RuntimeError", msg |-> "No more proxies available"]

-----------------------------------------------------------------------------
(* ResilientProxySession *)

NoChain == [rep |-> 0, open |-> FALSE, pos |-> 0]
NoAdvance == [before |-> -1, val |-> None]
\* kwargs of a request() call: a dict, as a function on the keys given
NoKwargs == [k \in {} |-> NoOutcome]
NoArgs == [method |-> "", url |-> "", kwargs |-> NoKwargs]

NoRequest ==
    [startActive |-> EmptyProxies, startChain |-> NoChain, startDrawn |-> 0,
     startSignalled |-> FALSE,
     calls |-> <<>>, advances |-> 0, out1 |-> NoOutcome, out2 |-> NoOutcome,
     result |-> NoOutcome, args |-> NoArgs, callArgs |-> <<>>]

NoConfig == [type |-> "none"]
\* callActive, callChain: self.proxies and self._proxies when the thread's
\* transport call in flight was issued
NoThread == [pc |-> "idle", callActive |-> EmptyProxies, callChain |-> NoChain,
             calls |-> <<>>]
\* cycles, advances, signalled: history of the second session
NoPeer == [phase |-> "new", plist |-> <<>>, chain |-> NoChain,
           active |-> EmptyProxies, pc |-> "idle",
           cycles |-> 0, advances |-> 0, signalled |-> FALSE]

\* timeout values: a (connect, read) tuple, a float, None
TimeoutPair(c, r) == [type |-> "tuple", connect |-> c, read |-> r]
NoTimeout == [type |-> "NoneType", v |-> 0]

\* the default of the timeout parameter
DefaultTimeout == TimeoutPair(30, 120)

\* the retry arguments: the defaults (8, 2, 0.5) and a smaller budget
DefaultRetryArgs == [total |-> 8, connect |-> 2, backoff |-> "0.5"]
SmallRetryArgs == [total |-> 3, connect |-> 1, backoff |-> "0"]

\* Retry(total=total_retries_per_proxy, connect=connect_retries_per_proxy,
\*       backoff_factor=backoff_factor)
\* faulty variant: total and connect are swapped
NewRetry_Swapped(a) ==
    [type |-> "Retry", total |-> a.connect, connect |-> a.total, backoff |-> a.backoff]

NewRetry(a) ==
    [type |-> "Retry", total |-> a.total, connect |-> a.connect, backoff |-> a.backoff]

\* the timeout and retry arguments tried: the defaults, and other values
ConfigArgs ==
    {[timeout |-> DefaultTimeout, retry |-> DefaultRetryArgs],
     [timeout |-> Float(5), retry |-> SmallRetryArgs]}

\* the requests tried
RequestArgs ==
    {[method |-> "GET", url |-> "https://httpbin.org/ip", kwargs |-> NoKwargs],
     [method |-> "GET", url |-> "https://httpbin.org/ip",
      kwargs |-> [k \in {"timeout"} |-> Float(10)]],
     [method |-> "POST", url |-> "http://example.org/",
      kwargs |-> [k \in {"timeout"} |-> NoTimeout]],
     [method |-> "GET", url |-> "http://example.org/",
      kwargs |-> [k \in {"headers"} |-> [type |-> "headers"]]]}

\* kwargs.setdefault('timeout', self._timeout)
\* faulty variant: kwargs['timeout'] = self._timeout
SetDefaultTimeout_Overwrite(kw, t) ==
    [k \in DOMAIN kw \cup {"timeout"} |-> IF k = "timeout" THEN t ELSE kw[k]]

SetDefaultTimeout(kw, t) ==
    [k \in DOMAIN kw \cup {"timeout"} |-> IF k \in DOMAIN kw THEN kw[k] ELSE t]

\* what one super().request(method, url, **kwargs) hands to the transport
TransportCall(a, kw, retry) ==
    [method |-> a.method, url |-> a.url, kwargs |-> kw, retry |-> retry]

\* the max_cycles arguments tried: None, integers, and a float
CycleArgs ==
    {[type |-> "NoneType", v |-> 0], [type |-> "float", v |-> 1]}
        \cup {[type |-> "int", v |-> i] : i \in -1..MaxCycles}

RECURSIVE SeqsUpTo(_, _)
SeqsUpTo(S, n) ==
    IF n = 0 THEN {<<>>}
    ELSE LET shorter == SeqsUpTo(S, n - 1)
         IN  shorter \cup {Append(q, x) : q \in {r \in shorter : Len(r) = n - 1}, x \in S}

ProxyLists == SeqsUpTo(ProxyIds, MaxProxies)

\* max_cycles = max_cycles if max_cycles is not None else 1
DefaultedCycles(mc) == IF mc.type = "NoneType" THEN [type |-> "int", v |-> 1] ELSE mc

\* not (not isinstance(max_cycles, int) or max_cycles <= 0)
\* faulty variant: the test is max_cycles < 0
ValidMaxCycles_AllowZero(c) == c.type = "int" /\ c.v >= 0

ValidMaxCycles(c) == c.type = "int" /\ c.v > 0

\* _set_next_proxy on iterator state it over lst, with self.proxies = cur
\* faulty variants: no raise when the chain is exhausted; self.proxies emptied
\* when the chain is exhausted; self.proxies not assigned
SetNextProxy_KeepOnNone(it, lst, cur) ==
    LET n == ChainNext(it, lst)
    IN  [raised |-> FALSE, val |-> n.val, chain |-> n.it,
         proxies |-> IF n.val = None THEN cur ELSE RequestsProxies(ProxyPool[n.val])]

SetNextProxy_ClearOnNone(it, lst, cur) ==
    LET n == ChainNext(it, lst)
    IN  [raised |-> n.val = None, val |-> n.val, chain |-> n.it,
         proxies |-> IF n.val = None THEN EmptyProxies
                     ELSE RequestsProxies(ProxyPool[n.val])]

SetNextProxy_NoAssign(it, lst, cur) ==
    LET n == ChainNext(it, lst)
    IN  [raised |-> n.val = None, val |-> n.val, chain |-> n.it, proxies |-> cur]

SetNextProxy(it, lst, cur) ==
    LET n == ChainNext(it, lst)
    IN  IF n.val = None
        THEN [raised |-> TRUE, val |-> None, chain |-> n.it, proxies |-> cur]
        ELSE [raised |-> FALSE, val |-> n.val, chain |-> n.it,
              proxies |-> RequestsProxies(ProxyPool[n.val])]

\* ResilientProxySession.__init__
Construct(lst, mc, cfg) ==
    /\ phase = "new"
    /\ plist' = lst
    /\ cyclesArg' = mc
    /\ cfgArgs' = cfg
    /\ LET c == DefaultedCycles(mc) IN
       IF ~ValidMaxCycles(c)
       THEN /\ phase' = "failed"
            /\ ctorError' = "ValueError"
            /\ UNCHANGED <<chain, active, drawn, lastAdv, config>>
       ELSE LET s == SetNextProxy(NewChain(lst, c.v), lst, EmptyProxies) IN
            /\ chain' = s.chain
            /\ config' = [type |-> "config", retry |-> NewRetry(cfg.retry),
                          timeout |-> cfg.timeout]
            /\ active' = s.proxies
            /\ lastAdv' = [before |-> Len(drawn), val |-> s.val]
            /\ drawn' = IF s.val = None THEN drawn ELSE Append(drawn, s.val)
            /\ phase' = IF s.raised THEN "failed" ELSE "ready"
            /\ ctorError' = IF s.raised THEN "RuntimeError" ELSE "none"
    /\ UNCHANGED <<pc, req, signalled, otherVars, recordVars, classifierVars>>

\* request(), up to its first super().request(...), which reads self.proxies
RequestBegin(a) ==
    /\ phase = "ready"
    /\ pc = "idle"
    /\ pc' = "call1"
    /\ LET kw == SetDefaultTimeout(a.kwargs, config.timeout) IN
       req' = [startActive |-> active, startChain |-> chain,
               startDrawn |-> Len(drawn),
               startSignalled |-> signalled, calls |-> <<active>>, advances |-> 0,
               out1 |-> NoOutcome, out2 |-> NoOutcome, result |-> NoOutcome,
               args |-> a, callArgs |-> <<TransportCall(a, kw, config.retry)>>]
    /\ UNCHANGED <<phase, ctorError, plist, cyclesArg, chain, active, drawn,
                   lastAdv, signalled, config, cfgArgs, otherVars, recordVars,
                   classifierVars>>

\* the first transport call's end o leaves request() at once: a response is
\* returned, an error no except clause catches propagates, a ConnectionError that
\* is no proxy error is raised again
\* faulty variant: a response with a server error status is retried like a proxy error
Propagates_UnlessServerError(o, causeFirst) ==
    \/ o.type = "response" /\ o.status < 500
    \/ o.type = "error" /\ ~IsInstance(o, ErrRoot, ConnCls)
    \/ o.type = "error" /\ ~IsProxyError(o, causeFirst)

Propagates(o, causeFirst) ==
    \/ o.type = "response"
    \/ ~IsInstance(o, ErrRoot, ConnCls)    \* no except clause catches it
    \/ ~IsProxyError(o, causeFirst)        \* raise ex

\* request(), from the end o of its first transport call to its return, its
\* raise, or its second super().request(...)
FirstCallReturns(o, causeFirst) ==
    /\ pc = "call1"
    /\ IF Propagates(o, causeFirst)
       THEN /\ pc' = "idle"
            /\ req' = [req EXCEPT !.out1 = o, !.result = o]
            /\ UNCHANGED <<chain, active, drawn, lastAdv, signalled>>
       ELSE LET s == SetNextProxy(chain, plist, active) IN
            /\ chain' = s.chain
            /\ active' = s.proxies
            /\ lastAdv' = [before |-> Len(drawn), val |-> s.val]
            /\ drawn' = IF s.val = None THEN drawn ELSE Append(drawn, s.val)
            /\ signalled' = (signalled \/ s.raised)
            /\ IF s.raised
               THEN /\ pc' = "idle"
                    /\ req' = [req EXCEPT !.out1 = o, !.advances = @ + 1,
                                          !.result = NoMoreProxies]
               ELSE /\ pc' = "call2"
                    /\ req' = [req EXCEPT !.out1 = o, !.advances = @ + 1,
                                          !.calls = Append(@, s.proxies),
                                          !.callArgs = Append(@,
                                              TransportCall(req.args, req.callArgs[1].kwargs,
                                                            config.retry))]
    /\ UNCHANGED <<phase, ctorError, plist, cyclesArg, config, cfgArgs, otherVars,
                   recordVars, classifierVars>>

\* request(), from the end o of its second transport call: return or raise
\* faulty variant: the retry is self.request(...), which rotates again
SecondCallReturns_Recursive(o) ==
    /\ pc = "call2"
    /\ IF o.type = "error" /\ IsProxyError(o, TRUE)
       THEN LET s == SetNextProxy(chain, plist, active) IN
            /\ chain' = s.chain
            /\ active' = s.proxies
            /\ lastAdv' = [before |-> Len(drawn), val |-> s.val]
            /\ drawn' = IF s.val = None THEN drawn ELSE Append(drawn, s.val)
            /\ signalled' = (signalled \/ s.raised)
            /\ pc' = "idle"
            /\ req' = [req EXCEPT !.out2 = o, !.advances = @ + 1,
                                  !.result = IF s.raised THEN NoMoreProxies ELSE o,
                                  !.calls = IF s.raised THEN @ ELSE Append(@, s.proxies)]
       ELSE /\ pc' = "idle"
            /\ req' = [req EXCEPT !.out2 = o, !.result = o]
            /\ UNCHANGED <<chain, active, drawn, lastAdv, signalled>>
    /\ UNCHANGED <<phase, ctorError, plist, cyclesArg, config, cfgArgs, otherVars,
                   recordVars, classifierVars>>

SecondCallReturns(o) ==
    /\ pc = "call2"
    /\ pc' = "idle"
    /\ req' = [req EXCEPT !.out2 = o, !.result = o]
    /\ UNCHANGED <<phase, ctorError, plist, cyclesArg, chain, active, drawn,
                   lastAdv, signalled, config, cfgArgs, otherVars, recordVars,
                   classifierVars>>

-----------------------------------------------------------------------------
(* A second thread calling request() on the same session. The steps are    *)
(* those of the first thread; self.proxies and self._proxies are shared.   *)

BRequestBegin(a) ==
    /\ phase = "ready"
    /\ threadB.pc = "idle"
    /\ threadB' = [pc |-> "call1", callActive |-> active, callChain |-> chain,
                   calls |-> <<active>>]
    /\ UNCHANGED <<phase, ctorError, plist, cyclesArg, chain, active, pc, req,
                   drawn, lastAdv, signalled, config, cfgArgs, peer, recordVars,
                   classifierVars>>

BFirstCallReturns(o, causeFirst) ==
    /\ threadB.pc = "call1"
    /\ IF Propagates(o, causeFirst)
       THEN /\ threadB' = [threadB EXCEPT !.pc = "idle"]
            /\ UNCHANGED <<chain, active, drawn, lastAdv, signalled>>
       ELSE LET s == SetNextProxy(chain, plist, active) IN
            /\ chain' = s.chain
            /\ active' = s.proxies
            /\ lastAdv' = [before |-> Len(drawn), val |-> s.val]
            /\ drawn' = IF s.val = None THEN drawn ELSE Append(drawn, s.val)
            /\ signalled' = (signalled \/ s.raised)
            /\ threadB' = IF s.raised
                          THEN [threadB EXCEPT !.pc = "idle"]
                          ELSE [pc |-> "call2", callActive |-> s.proxies,
                                callChain |-> s.chain,
                                calls |-> Append(threadB.calls, s.proxies)]
    /\ UNCHANGED <<phase, ctorError, plist, cyclesArg, pc, req, config, cfgArgs,
                   peer, recordVars, classifierVars>>

BSecondCallReturns(o) ==
    /\ threadB.pc = "call2"
    /\ threadB' = [threadB EXCEPT !.pc = "idle"]
    /\ UNCHANGED <<phase, ctorError, plist, cyclesArg, chain, active, pc, req,
                   drawn, lastAdv, signalled, config, cfgArgs, peer, recordVars,
                   classifierVars>>

-----------------------------------------------------------------------------
(* A second ResilientProxySession, with its own attributes *)

PeerConstruct(lst, mc) ==
    /\ peer.phase = "new"
    /\ LET c == DefaultedCycles(mc) IN
       IF ~ValidMaxCycles(c)
       THEN peer' = [peer EXCEPT !.phase = "failed", !.plist = lst]
       ELSE LET s == SetNextProxy(NewChain(lst, c.v), lst, EmptyProxies) IN
            peer' = [phase |-> IF s.raised THEN "failed" ELSE "ready",
                     plist |-> lst, chain |-> s.chain, active |-> s.proxies,
                     pc |-> "idle", cycles |-> c.v,
                     advances |-> IF s.raised THEN 0 ELSE 1, signalled |-> FALSE]
    /\ UNCHANGED <<phase, ctorError, plist, cyclesArg, chain, active, pc, req,
                   drawn, lastAdv, signalled, config, cfgArgs, threadB,
                   recordVars, classifierVars>>

PeerRequestBegin ==
    /\ peer.phase = "ready"
    /\ peer.pc = "idle"
    /\ peer' = [peer EXCEPT !.pc = "call1"]
    /\ UNCHANGED <<phase, ctorError, plist, cyclesArg, chain, active, pc, req,
                   drawn, lastAdv, signalled, config, cfgArgs, threadB,
                   recordVars, classifierVars>>

\* faulty variant: the sessions draw from one iterator, the first session's
PeerFirstCallReturns_SharedPool(o, causeFirst) ==
    /\ peer.pc = "call1"
    /\ IF Propagates(o, causeFirst)
       THEN /\ peer' = [peer EXCEPT !.pc = "idle"]
            /\ UNCHANGED chain
       ELSE LET s == SetNextProxy(chain, plist, peer.active) IN
            /\ chain' = s.chain
            /\ peer' = [peer EXCEPT !.active = s.proxies,
                                    !.pc = IF s.raised THEN "idle" ELSE "call2",
                                    !.advances = IF s.raised THEN @ ELSE @ + 1,
                                    !.signalled = @ \/ s.raised]
    /\ UNCHANGED <<phase, ctorError, plist, cyclesArg, active, pc, req,
                   drawn, lastAdv, signalled, config, cfgArgs, threadB,
                   recordVars, classifierVars>>

PeerFirstCallReturns(o, causeFirst) ==
    /\ peer.pc = "call1"
    /\ IF Propagates(o, causeFirst)
       THEN peer' = [peer EXCEPT !.pc = "idle"]
       ELSE LET s == SetNextProxy(peer.chain, peer.plist, peer.active) IN
            peer' = [peer EXCEPT !.chain = s.chain, !.active = s.proxies,
                                 !.pc = IF s.raised THEN "idle" ELSE "call2",
                                 !.advances = IF s.raised THEN @ ELSE @ + 1,
                                 !.signalled = @ \/ s.raised]
    /\ UNCHANGED <<phase, ctorError, plist, cyclesArg, chain, active, pc, req,
                   drawn, lastAdv, signalled, config, cfgArgs, threadB,
                   recordVars, classifierVars>>

PeerSecondCallReturns(o) ==
    /\ peer.pc = "call2"
    /\ peer' = [peer EXCEPT !.pc = "idle"]
    /\ UNCHANGED <<phase, ctorError, plist, cyclesArg, chain, active, pc, req,
                   drawn, lastAdv, signalled, config, cfgArgs, threadB,
                   recordVars, classifierVars>>

-----------------------------------------------------------------------------
(* Proxy: construction *)

NoRec == [type |-> "none"]
NoDerived == [type |-> "none"]
NoSorting == [type |-> "none"]

\* bool(x) of such a value
Truthy(x) == x.type # "NoneType" /\ ~(x.type \in {"float", "timedelta"} /\ x.v = 0)

\* x or default
Or(x, default) == IF Truthy(x) THEN x ELSE default

CountryChars == {"u", "s", "D", "1", "eszett"}

Protocols == {<<"h", "t", "t", "p">>, <<"H", "T", "T", "P", "S">>,
              <<"s", "o", "c", "k", "s", "5">>, <<"S", "O", "C", "K", "S", "5">>,
              <<"s", "o", "c", "k", "s", "4">>, <<"S", "o", "c", "k", "s", "4">>}

ProxyArgs ==
    [type : {"args"},
     ip : {"10.0.0.1"},
     port : {"8080"},
     protocol : Protocols,
     country : SeqsUpTo(CountryChars, MaxCountryLen),
     uptime : {Absent, Float(0), Float(90)},
     last_checked : {Absent, Seconds(0), Seconds(5)},
     response_time : {Absent, Float(0), Float(50)}]

\* Proxy(**args): the generated __init__ followed by __post_init__
ConstructProxy(args) ==
    /\ recIn = NoRec
    /\ recIn' = args
    /\ IF Len(args.country) # 2
       THEN /\ recError' = "ValueError"
            /\ rec' = NoRec
       ELSE /\ recError' = "none"
            /\ rec' = [type |-> "Proxy", ip |-> args.ip, port |-> args.port,
                       protocol |-> args.protocol,
                       country |-> Upper(args.country),
                       uptime |-> Or(args.uptime, Float(0)),
                       last_checked |-> Or(args.last_checked, TimedeltaMax),
                       response_time |-> Or(args.response_time, Inf)]
    /\ UNCHANGED <<derived, sorting, sessionVars, classifierVars>>

\* reading url, requests_protocol, requests_url and requests_proxies of the record
ReadDerived ==
    /\ rec.type = "Proxy"
    /\ derived = NoDerived
    /\ derived' = [type |-> "derived",
                   url |-> Url(rec),
                   requests_protocol |-> RequestsProtocol(rec),
                   requests_url |-> RequestsUrl(rec),
                   requests_proxies |-> RequestsProxies(rec)]
    /\ UNCHANGED <<recIn, rec, recError, sorting, sessionVars, classifierVars>>

-----------------------------------------------------------------------------
(* Proxy.sort_key and the sort that ends proxydb.get_proxies *)

\* x < y on floats and on timedeltas; inf and timedelta.max are the largest
IsTop(x) == x.type \in {"float.inf", "timedelta.max"}
ValLt(x, y) == IF IsTop(x) THEN FALSE ELSE IF IsTop(y) THEN TRUE ELSE x.v < y.v

\* -x of a finite float
Neg(x) == Float(0 - x.v)

\* Proxy.sort_key
\* faulty variant: uptime is not negated
SortKey_UptimeAscending(p) == <<p.uptime, p.last_checked, p.response_time>>

SortKey(p) == <<Neg(p.uptime), p.last_checked, p.response_time>>

\* a < b on tuples of equal length: decided at the first position where they differ
TupleLt(a, b) ==
    \E i \in 1..Len(a) :
        /\ \A j \in 1..(i - 1) : a[j] = b[j]
        /\ a[i] # b[i]
        /\ ValLt(a[i], b[i])

\* list.sort(key=sort_key), a stable sort: x goes before the first element whose
\* key is greater than its own
RECURSIVE InsertSorted(_, _)
InsertSorted(x, q) ==
    IF q = <<>> THEN <<x>>
    ELSE IF TupleLt(SortKey(x), SortKey(Head(q))) THEN <<x>> \o q
    ELSE <<Head(q)>> \o InsertSorted(x, Tail(q))

RECURSIVE SortFrom(_, _)
SortFrom(q, sorted) ==
    IF q = <<>> THEN sorted ELSE SortFrom(Tail(q), InsertSorted(Head(q), sorted))

SortByKey(q) == SortFrom(q, <<>>)

\* the metrics of the records a listing page yields, after Proxy construction
Metrics ==
    [uptime : {Float(50), Float(90)},
     last_checked : {Seconds(1), Seconds(5)},
     response_time : {Float(10), Float(50), Inf}]

MetricLists == SeqsUpTo(Metrics, MaxSortLen)

\* the records in the order the pages list them, id being that order
Fetched(ms) ==
    [i \in 1..Len(ms) |->
        [id |-> i, uptime |-> ms[i].uptime, last_checked |-> ms[i].last_checked,
         response_time |-> ms[i].response_time]]

\* get_proxies: with at most one country the pages' records are sorted; with
\* several, the result of get_proxies of each country (here two, the first split
\* records and the rest) are concatenated and sorted
GetProxies(ms, several, split) ==
    /\ sorting = NoSorting
    /\ LET fetched == Fetched(ms)
           proxies == IF several
                      THEN SortByKey(SubSeq(fetched, 1, split))
                             \o SortByKey(SubSeq(fetched, split + 1, Len(fetched)))
                      ELSE fetched
       IN  sorting' = [type |-> "sorted", input |-> fetched, several |-> several,
                       output |-> SortByKey(proxies)]
    /\ UNCHANGED <<recIn, rec, recError, derived, sessionVars, classifierVars>>

\* a call of ResilientProxySession._is_proxy_error(clsErr)
Classify(causeFirst) ==
    /\ ~clsDone
    /\ clsErr.type = "error"
    /\ clsDone' = TRUE
    /\ clsResult' = IsProxyError(clsErr, causeFirst)
    /\ UNCHANGED <<clsErr, sessionVars, recordVars>>

-----------------------------------------------------------------------------

Init ==
    /\ phase = "new"
    /\ ctorError = "none"
    /\ plist = <<>>
    /\ cyclesArg = [type |-> "NoneType", v |-> 0]
    /\ chain = NoChain
    /\ active = EmptyProxies
    /\ pc = "idle"
    /\ req = NoRequest
    /\ drawn = <<>>
    /\ lastAdv = NoAdvance
    /\ signalled = FALSE
    /\ config = NoConfig
    /\ cfgArgs = NoConfig
    /\ threadB = NoThread
    /\ peer = NoPeer
    /\ recIn = NoRec
    /\ rec = NoRec
    /\ recError = "none"
    /\ derived = NoDerived
    /\ sorting = NoSorting
    /\ clsErr = NoOutcome
    /\ clsDone = FALSE
    /\ clsResult = FALSE

Next ==
    \/ \E lst \in ProxyLists, mc \in CycleArgs, cfg \in ConfigArgs : Construct(lst, mc, cfg)
    \/ \E a \in RequestArgs : RequestBegin(a)
    \/ \E o \in Outcomes, causeFirst \in BOOLEAN : FirstCallReturns(o, causeFirst)
    \/ \E o \in Outcomes : SecondCallReturns(o)

Spec == Init /\ [][Next]_vars

\* the same, where every transport call in flight ends: it returns or it fails
SpecLive ==
    /\ Init /\ [][Next]_vars
    /\ WF_vars(\E o \in Outcomes, causeFirst \in BOOLEAN : FirstCallReturns(o, causeFirst))
    /\ WF_vars(\E o \in Outcomes : SecondCallReturns(o))

\* the inputs of the specifications with two threads or two sessions
FewLists == {<<"P1">>, <<"P1", "P2">>, <<"P2", "P1", "P1">>}
FewCycles == {[type |-> "int", v |-> 1], [type |-> "int", v |-> 2]}
FewOutcomes == {[type |-> "response", status |-> 200], ErrHttpProxy, ErrSocksWrapped, ErrDns}
OneConfig == [timeout |-> DefaultTimeout, retry |-> DefaultRetryArgs]
OneRequest == [method |-> "GET", url |-> "https://httpbin.org/ip", kwargs |-> NoKwargs]

FirstSession ==
    \/ \E lst \in FewLists, mc \in FewCycles : Construct(lst, mc, OneConfig)
    \/ RequestBegin(OneRequest)
    \/ \E o \in FewOutcomes, causeFirst \in BOOLEAN : FirstCallReturns(o, causeFirst)
    \/ \E o \in FewOutcomes : SecondCallReturns(o)

\* two threads calling request() on one session, without synchronisation
NextThreads ==
    \/ FirstSession
    \/ BRequestBegin(OneRequest)
    \/ \E o \in FewOutcomes, causeFirst \in BOOLEAN : BFirstCallReturns(o, causeFirst)
    \/ \E o \in FewOutcomes : BSecondCallReturns(o)

SpecThreads == Init /\ [][NextThreads]_vars

\* two sessions, their requests interleaved
NextSessions ==
    \/ FirstSession
    \/ \E lst \in FewLists, mc \in FewCycles : PeerConstruct(lst, mc)
    \/ PeerRequestBegin
    \/ \E o \in FewOutcomes, causeFirst \in BOOLEAN : PeerFirstCallReturns(o, causeFirst)
    \/ \E o \in FewOutcomes : PeerSecondCallReturns(o)

SpecSessions == Init /\ [][NextSessions]_vars

\* Proxy construction on every argument combination within the bounds
NextProxy ==
    \/ recIn = NoRec /\ \E args \in ProxyArgs : ConstructProxy(args)
    \/ ReadDerived

SpecProxy == Init /\ [][NextProxy]_vars

\* get_proxies on every list of fetched records within the bounds
NextSort ==
    /\ sorting = NoSorting
    /\ \E ms \in MetricLists, several \in BOOLEAN, split \in 0..MaxSortLen :
          /\ split <= Len(ms)
          /\ several \/ split = 0
          /\ GetProxies(ms, several, split)

SpecSort == Init /\ [][NextSort]_vars

\* _is_proxy_error on every exception graph over ErrNodes
InitClassifier ==
    /\ phase = "new"
    /\ ctorError = "none"
    /\ plist = <<>>
    /\ cyclesArg = [type |-> "NoneType", v |-> 0]
    /\ chain = NoChain
    /\ active = EmptyProxies
    /\ pc = "idle"
    /\ req = NoRequest
    /\ drawn = <<>>
    /\ lastAdv = NoAdvance
    /\ signalled = FALSE
    /\ config = NoConfig
    /\ cfgArgs = NoConfig
    /\ threadB = NoThread
    /\ peer = NoPeer
    /\ recIn = NoRec
    /\ rec = NoRec
    /\ recError = "none"
    /\ derived = NoDerived
    /\ sorting = NoSorting
    /\ clsErr \in ErrGraphs
    /\ clsDone = FALSE
    /\ clsResult = FALSE

NextClassifier == \E causeFirst \in BOOLEAN : Classify(causeFirst)

SpecClassifier == InitClassifier /\ [][NextClassifier]_vars

-----------------------------------------------------------------------------
(* Vocabulary of the properties *)

\* the exceptions reachable from the root over __cause__ and __context__ links
RECURSIVE ReachFrom(_, _)
ReachFrom(ex, S) ==
    LET T == S \cup {ex.cause[n] : n \in S} \cup {ex.context[n] : n \in S}
        U == T \ {None}
    IN  IF U = S THEN S ELSE ReachFrom(ex, U)

\* proxy-originated, as the design states it
ProxyOriginated(ex) ==
    \/ ProxyCls \in ex.kind[ErrRoot]
    \/ /\ ConnCls \in ex.kind[ErrRoot]
       /\ \E n \in ReachFrom(ex, {ErrRoot}) : SocksCls \in ex.kind[n]

FailedProxyOriginated(o) == o.type = "error" /\ ProxyOriginated(o)
FailedOtherwise(o) == o.type = "error" /\ ~ProxyOriginated(o)

\* the length of the rotation sequence of a session built with an integer max_cycles
SequenceLength == Len(plist) * cyclesArg.v

PairwiseDistinct(q) == \A i, j \in 1..Len(q) : i # j => q[i] # q[j]

ConfigOf(id) == RequestsProxies(ProxyPool[id])

-----------------------------------------------------------------------------
(* Properties of the session *)

\* C1: on a session of at least two pairwise distinct proxies, a request whose
\* first transport call fails proxy-originated while the rotation sequence still
\* has a proxy advances the sequence exactly once and makes exactly two transport
\* calls: the first against the proxy active before, the second against the newly
\* drawn proxy, which is then the active one.
C1_RotateOnceAndRetry ==
    (/\ phase = "ready"
     /\ cyclesArg.type = "int"
     /\ Len(plist) >= 2 /\ PairwiseDistinct(plist)
     /\ FailedProxyOriginated(req.out1)
     /\ req.startDrawn < SequenceLength)
    => /\ pc \in {"call2", "idle"}
       /\ req.advances = 1
       /\ Len(drawn) = req.startDrawn + 1
       /\ Len(req.calls) = 2
       /\ req.calls[1] = req.startActive
       /\ req.calls[2] = ConfigOf(drawn[Len(drawn)])
       /\ req.calls[2] # req.calls[1]
       /\ active = req.calls[2]

C1_Witness ==
    /\ phase = "ready" /\ pc = "idle"
    /\ cyclesArg.type = "int"
    /\ Len(plist) >= 2 /\ PairwiseDistinct(plist)
    /\ req.out1 = ErrSocksWrapped
    /\ req.startDrawn < SequenceLength
    /\ req.out2.type = "response"

\* C2: a request whose transport call fails with an error that is not
\* proxy-originated (a connection failure without SOCKS error in its chain, or no
\* connection failure at all) ends there: no advance, no second transport call,
\* that same error as its result, active proxy and cursor as before the request.
C2_OtherErrorPropagates ==
    FailedOtherwise(req.out1)
    => /\ pc = "idle"
       /\ req.result = req.out1
       /\ req.advances = 0
       /\ Len(req.calls) = 1
       /\ req.out2 = NoOutcome
       /\ active = req.startActive
       /\ chain = req.startChain
       /\ Len(drawn) = req.startDrawn

C2_Witness ==
    /\ pc = "idle"
    /\ req.out1 = ErrDns
    /\ req.result = ErrDns
    /\ cyclesArg.type = "int"
    /\ req.startDrawn < SequenceLength

\* C3: when the call re-issued after a rotation fails too, with whatever error,
\* that error is the request's result, the request has advanced the sequence once
\* and made two transport calls, and the proxy drawn by that rotation stays active.
C3_AtMostOneRotation ==
    req.out2.type = "error"
    => /\ pc = "idle"
       /\ req.result = req.out2
       /\ req.advances = 1
       /\ Len(req.calls) = 2
       /\ Len(drawn) = req.startDrawn + 1
       /\ active = req.calls[2]
       /\ active = ConfigOf(drawn[Len(drawn)])

C3_Witness ==
    /\ pc = "idle"
    /\ FailedProxyOriginated(req.out2)
    /\ cyclesArg.type = "int"
    /\ Len(drawn) < SequenceLength

\* C4: once an advance has signalled exhaustion, a later request makes no
\* transport call and fails with the no-proxies-remaining error.
C4_ExhaustedIsTerminal ==
    req.startSignalled
    => /\ pc = "idle"
       /\ req.calls = <<>>
       /\ req.result = NoMoreProxies

\* C5: a request whose first transport call fails proxy-originated when the
\* rotation sequence has no further proxy fails with the no-proxies-remaining
\* error, not the transport's error, and makes no second transport call.
C5_ExhaustionFailsRequest ==
    (/\ phase = "ready"
     /\ cyclesArg.type = "int"
     /\ FailedProxyOriginated(req.out1)
     /\ req.startDrawn >= SequenceLength)
    => /\ pc = "idle"
       /\ req.result = NoMoreProxies
       /\ req.result # req.out1
       /\ Len(req.calls) = 1
       /\ req.out2 = NoOutcome

C5_Witness ==
    /\ phase = "ready" /\ pc = "idle"
    /\ cyclesArg.type = "int"
    /\ req.out1 = ErrHttpProxy
    /\ req.startDrawn = SequenceLength
    /\ req.result = NoMoreProxies

\* C6: for a list of n >= 1 proxies and a positive max_cycles c, the i-th proxy
\* drawn is list element (i-1) mod n, repeated entries included, at most n*c are
\* drawn, and an advance signals exhaustion exactly when n*c have been drawn.
C6_RotationOrder ==
    (/\ phase # "new"
     /\ cyclesArg.type = "int" /\ cyclesArg.v > 0
     /\ Len(plist) >= 1)
    => /\ Len(drawn) <= SequenceLength
       /\ \A i \in 1..Len(drawn) : drawn[i] = plist[((i - 1) % Len(plist)) + 1]
       /\ lastAdv.before >= 0
       /\ (lastAdv.val = None) <=> (lastAdv.before >= SequenceLength)
       /\ lastAdv.val # None => lastAdv.val = plist[(lastAdv.before % Len(plist)) + 1]

C6_Witness ==
    /\ plist = <<"P1", "P2">>
    /\ cyclesArg = [type |-> "int", v |-> 2]
    /\ drawn = <<"P1", "P2", "P1", "P2">>
    /\ lastAdv = [before |-> 4, val |-> None]

\* C8: constructing a session from an empty proxy list raises: no session exists
\* and no transport call is made.
C8_EmptyListFails ==
    (phase # "new" /\ plist = <<>>)
    => /\ phase = "failed"
       /\ ctorError # "none"
       /\ pc = "idle"
       /\ req = NoRequest

C8_Witness ==
    /\ plist = <<>>
    /\ cyclesArg = [type |-> "int", v |-> 2]
    /\ phase = "failed"
    /\ ctorError = "RuntimeError"

\* C9: constructing a session with max_cycles <= 0 raises the configuration error
\* (ValueError), whatever the proxy list, before any proxy is drawn.
C9_NonPositiveCyclesFails ==
    (phase # "new" /\ cyclesArg.type = "int" /\ cyclesArg.v <= 0)
    => /\ phase = "failed"
       /\ ctorError = "ValueError"
       /\ chain = NoChain
       /\ drawn = <<>>
       /\ lastAdv = NoAdvance
       /\ active = EmptyProxies

C9_Witness ==
    /\ phase = "failed"
    /\ cyclesArg = [type |-> "int", v |-> 0]
    /\ plist = <<"P1", "P2">>
    /\ ctorError = "ValueError"

-----------------------------------------------------------------------------
(* Properties of the classifier and of the Proxy record *)

\* C7: on every exception graph, cyclic ones included, _is_proxy_error returns,
\* and returns True exactly when the exception is a requests ProxyError, or is a
\* ConnectionError from which a socks.ProxyError is reachable (itself included)
\* over any mix of __cause__ and __context__ links.
C7_ClassifierExact ==
    clsDone => (clsResult <=> ProxyOriginated(clsErr))

\* a SOCKS error behind a cause link then a context link, on a cycle
C7_Witness ==
    /\ clsDone
    /\ clsResult = TRUE
    /\ clsErr.kind = NodeFn({ConnCls}, {}, {SocksCls})
    /\ clsErr.cause = NodeFn("e2", "e1", None)
    /\ clsErr.context = NodeFn(None, "e3", "e1")

UpperLetters == {"U", "S", "D"}

\* C10: Proxy(...) with a country whose length is not 2 raises; a Proxy that was
\* constructed holds a country of exactly 2 uppercase letters.
C10_CountryCode ==
    recIn # NoRec
    => /\ Len(recIn.country) # 2 => (recError # "none" /\ rec = NoRec)
       /\ recError = "none"
            => /\ Len(rec.country) = 2
               /\ \A i \in 1..Len(rec.country) : rec.country[i] \in UpperLetters

\* C11: the transport-facing scheme of a Proxy is socks4a for socks4 and socks5h
\* for socks5, in any letter case, and the lowercased protocol for http and
\* https; requests_proxies maps both 'http' and 'https' to the URL of that scheme.
C11_Scheme(proto) ==
    CASE proto = <<"h", "t", "t", "p">> -> <<"h", "t", "t", "p">>
      [] proto = <<"H", "T", "T", "P", "S">> -> <<"h", "t", "t", "p", "s">>
      [] proto \in {<<"s", "o", "c", "k", "s", "4">>, <<"S", "o", "c", "k", "s", "4">>}
            -> <<"s", "o", "c", "k", "s", "4", "a">>
      [] proto \in {<<"s", "o", "c", "k", "s", "5">>, <<"S", "O", "C", "K", "S", "5">>}
            -> <<"s", "o", "c", "k", "s", "5", "h">>

C11_TransportUrl ==
    derived.type = "derived"
    => LET url == C11_Scheme(rec.protocol) \o <<":", "/", "/", rec.ip, ":", rec.port>>
       IN  /\ derived.requests_protocol = C11_Scheme(rec.protocol)
           /\ derived.requests_url = url
           /\ derived.requests_proxies = {<<"http", url>>, <<"https", url>>}

C11_Witness ==
    /\ derived.type = "derived"
    /\ rec.protocol = <<"S", "O", "C", "K", "S", "5">>
    /\ derived.requests_protocol = <<"s", "o", "c", "k", "s", "5", "h">>

\* C20: Proxy(...) replaces only absent uptime, response_time and last_checked by
\* the defaults 0.0, inf and timedelta.max; a supplied value, zero included, is
\* stored unchanged.
C20_OnlyAbsentDefaulted ==
    rec.type = "Proxy"
    => /\ rec.uptime = IF recIn.uptime = Absent THEN Float(0) ELSE recIn.uptime
       /\ rec.response_time =
            IF recIn.response_time = Absent THEN Inf ELSE recIn.response_time
       /\ rec.last_checked =
            IF recIn.last_checked = Absent THEN TimedeltaMax ELSE recIn.last_checked

\* C12: in a list sorted by the default order, record a stands before record b
\* whenever a has the higher uptime, or the same uptime and the smaller
\* last_checked, or the same of both and the smaller response_time; records equal
\* on the three keep their input order; the list get_proxies returns is sorted so.
C12_Smaller(x, y) ==
    \/ ~(x.type \in {"float.inf", "timedelta.max"}) /\ y.type \in {"float.inf", "timedelta.max"}
    \/ x.type = y.type /\ x.type \in {"float", "timedelta"} /\ x.v < y.v

C12_Ranks(a, b) ==
    \/ a.uptime.v > b.uptime.v
    \/ a.uptime = b.uptime /\ C12_Smaller(a.last_checked, b.last_checked)
    \/ /\ a.uptime = b.uptime /\ a.last_checked = b.last_checked
       /\ C12_Smaller(a.response_time, b.response_time)

C12_Ties(a, b) ==
    a.uptime = b.uptime /\ a.last_checked = b.last_checked
        /\ a.response_time = b.response_time

C12_DefaultOrder ==
    sorting.type = "sorted"
    => LET out == sorting.output
           inp == sorting.input
       IN  /\ Len(out) = Len(inp)
           /\ {out[i] : i \in 1..Len(out)} = {inp[i] : i \in 1..Len(inp)}
           /\ \A i, j \in 1..Len(out) :
                /\ C12_Ranks(out[i], out[j]) => i < j
                /\ (C12_Ties(out[i], out[j]) /\ out[i].id < out[j].id) => i < j

\* B (uptime 90, checked 5 s ago, 10 ms) listed before A (90, 1 s ago, 50 ms)
C12_Witness ==
    /\ sorting.type = "sorted"
    /\ Len(sorting.input) = 2
    /\ sorting.input[1].uptime = Float(90) /\ sorting.input[2].uptime = Float(90)
    /\ sorting.input[1].last_checked = Seconds(5)
    /\ sorting.input[2].last_checked = Seconds(1)
    /\ sorting.input[1].response_time = Float(10)
    /\ sorting.input[2].response_time = Float(50)
    /\ sorting.output[1].id = 2

\* C13: every transport call of a request carries the caller's timeout when the
\* caller gave one and the session's configured timeout otherwise, with the
\* caller's method, URL and other options; the re-issued call equals the first.
C13_TimeoutAndArguments ==
    /\ Len(req.callArgs) = Len(req.calls)
    /\ \A i \in 1..Len(req.callArgs) :
         LET c == req.callArgs[i]
             given == req.args.kwargs
         IN  /\ c.method = req.args.method
             /\ c.url = req.args.url
             /\ DOMAIN c.kwargs = DOMAIN given \cup {"timeout"}
             /\ \A k \in DOMAIN given : c.kwargs[k] = given[k]
             /\ "timeout" \notin DOMAIN given => c.kwargs["timeout"] = cfgArgs.timeout
             /\ c.method = req.callArgs[1].method
             /\ c.url = req.callArgs[1].url
             /\ c.kwargs = req.callArgs[1].kwargs

C13_Witness ==
    /\ pc = "idle"
    /\ Len(req.callArgs) = 2
    /\ req.args.kwargs = [k \in {"timeout"} |-> Float(10)]
    /\ cfgArgs.timeout = DefaultTimeout
    /\ req.callArgs[2].kwargs["timeout"] = Float(10)

\* C14: provided each transport call ends, a request in flight completes, with
\* the response or error of its last transport call or with the
\* no-proxies-remaining error raised on that call's error, after at most two
\* transport calls.
C14_Completed ==
    LET last == IF req.out2.type # "none" THEN req.out2 ELSE req.out1
    IN  /\ pc = "idle"
        /\ req.result.type # "none"
        /\ Len(req.calls) <= 2
        /\ \/ req.result = last
           \/ req.result = NoMoreProxies /\ last.type = "error"

C14_RequestCompletes == (pc # "idle") ~> C14_Completed

C14_Witness ==
    /\ pc = "idle"
    /\ Len(req.calls) = 2
    /\ req.out1 = ErrHttpProxy
    /\ req.result = ErrDns

\* C15: a request whose first transport call returns a response, error statuses
\* included, returns it after that one call; active proxy and cursor are as before.
C15_ResponseReturned ==
    req.out1.type = "response"
    => /\ pc = "idle"
       /\ req.result = req.out1
       /\ Len(req.calls) = 1
       /\ req.advances = 0
       /\ req.out2 = NoOutcome
       /\ active = req.startActive
       /\ chain = req.startChain
       /\ Len(drawn) = req.startDrawn

C15_Witness ==
    /\ pc = "idle"
    /\ req.out1 = [type |-> "response", status |-> 503]
    /\ req.result = req.out1
    /\ cyclesArg.type = "int"
    /\ req.startDrawn < SequenceLength

\* C18: the retry parameters and the configured timeout of a session stay the
\* values given at construction, and every transport call, the one re-issued
\* after a rotation included, runs under that retry policy.
C18_Retry == [type |-> "Retry", total |-> cfgArgs.retry.total,
              connect |-> cfgArgs.retry.connect, backoff |-> cfgArgs.retry.backoff]

C18_RetryPolicyKept ==
    phase = "ready"
    => /\ config.retry = C18_Retry
       /\ config.timeout = cfgArgs.timeout
       /\ \A i \in 1..Len(req.callArgs) : req.callArgs[i].retry = C18_Retry

C18_Witness ==
    /\ phase = "ready" /\ pc = "idle"
    /\ cfgArgs.retry = SmallRetryArgs
    /\ Len(drawn) >= 3
    /\ Len(req.callArgs) = 2
    /\ req.callArgs[2].retry.total = 3

\* C19: a constructed session has one active proxy, the one drawn last: after k
\* successful advances the transport's proxy configuration is that of list
\* element (k-1) mod n, also after an advance that signalled exhaustion.
C19_ActiveIsLastDrawn ==
    phase = "ready"
    => /\ Len(drawn) >= 1
       /\ active = ConfigOf(plist[((Len(drawn) - 1) % Len(plist)) + 1])
       /\ {pr[1] : pr \in active} = {"http", "https"}
       /\ Cardinality({pr[2] : pr \in active}) = 1
       /\ (lastAdv.val = None /\ req.result = NoMoreProxies) => active = req.startActive

C19_Witness ==
    /\ phase = "ready" /\ pc = "idle"
    /\ plist = <<"P1", "P2", "P3">>
    /\ Len(drawn) = 6
    /\ req.result = NoMoreProxies
    /\ active = ConfigOf("P3")

\* C16: on one session, the active proxy and the rotation cursor do not change
\* while a request of either of two threads has a transport call in flight.
C16_NoChangeInFlight ==
    /\ threadB.pc # "idle"
         => (active = threadB.callActive /\ chain = threadB.callChain)
    /\ pc # "idle"
         => (active = req.calls[Len(req.calls)]
               /\ Len(drawn) = req.startDrawn + req.advances)

\* the advances a chain iterator over lst can still yield
Remaining(it, lst) ==
    it.rep * Len(lst) + (IF it.open THEN Len(lst) - it.pos ELSE 0)

\* C17: of two sessions, each one's active proxy, cursor and remaining number of
\* advances are those its own advances alone account for, whatever the other
\* session has done, also when both were built from the same list.
C17_SessionsIndependent ==
    /\ phase = "ready"
         => /\ Remaining(chain, plist) = SequenceLength - Len(drawn)
            /\ active = ConfigOf(plist[((Len(drawn) - 1) % Len(plist)) + 1])
            /\ signalled => Len(drawn) = SequenceLength
    /\ peer.phase = "ready"
         => /\ Remaining(peer.chain, peer.plist)
                  = Len(peer.plist) * peer.cycles - peer.advances
            /\ peer.active
                  = ConfigOf(peer.plist[((peer.advances - 1) % Len(peer.plist)) + 1])
            /\ peer.signalled => peer.advances = Len(peer.plist) * peer.cycles

\* the second session is exhausted, the first, built from the same list, has not moved
C17_Witness ==
    /\ phase = "ready" /\ peer.phase = "ready"
    /\ plist = <<"P1", "P2">> /\ peer.plist = plist
    /\ cyclesArg.v = 2 /\ peer.cycles = 2
    /\ peer.signalled
    /\ peer.active = ConfigOf("P2")
    /\ Len(drawn) = 1
    /\ active = ConfigOf("P1")
    /\ pc = "call1"

====
